---- MODULE Spec2Model ----
(***************************************************************************)
(* HdfsPath (hdfs_path.py): a path value bound lazily to a filesystem      *)
(* client.  Three specifications:                                          *)
(*   Spec      the session lifecycle of one HdfsPath object: the fs        *)
(*             property, getcwd, chdir, close, __enter__ and __exit__;     *)
(*   SpecPath  relpath / relpathto on pairs of path values;                *)
(*   SpecTrav  listdir and walk / walkdirs / walkfiles on a remote tree.   *)
(***************************************************************************)
EXTENDS Integers, Sequences, FiniteSets, TLC

\* ---------------------------------------------------------------- bounds
\* with-blocks on the one path object that may be open at the same time
MaxDepth == 2
\* segments of a path value given to relpath / relpathto
MaxSegs == 2
\* entries of a directory listed with a pattern
MaxEntries == 2
\* tokens of a listdir pattern
MaxPatLen == 2
\* files and directories below the root of a walked tree
MaxNodes == 3

VARIABLES
    self_path,     \* the HdfsPath value itself (host, port, dir)
    self_fs,       \* self.__fs: NoFs (None) or the id of the cached handle
    self_old_dir,  \* self._old_dir, written by __enter__
    client,        \* client-side state of the cached handle
    calls,         \* the client calls issued by the latest operation, in order
    op,            \* the latest operation: its name and path argument
    outcome,       \* "ok" or the error the latest operation raised
    depth,         \* with-blocks currently open on the object
    entryDirs,     \* per open with-block, the working directory at its entry
    pin,           \* SpecPath: the inputs of the latest path computation
    pout,          \* SpecPath: its result
    tree,          \* SpecTrav: the remote namespace below the listed directory
    tout           \* SpecTrav: the result of the latest traversal

sessionVars == <<self_path, self_fs, self_old_dir, client, calls, op, outcome,
                 depth, entryDirs>>
pathVars == <<pin, pout>>
travVars == <<tree, tout>>
vars == <<sessionVars, pathVars, travVars>>

\* ------------------------------------------------------- session: values
\* self.__fs = None
NoFs == 0

\* the id of the handle the fs property caches
FsId == 1

\* what the default authority ("default", 0) resolves to on connection
DefaultAuthority == <<"nn1", 1>>

\* (host, port) as written in a path; ("default", 0) when it carries none
Authorities == {<<"default", 0>>, <<"nn1", 1>>, <<"nn1", 2>>, <<"nn2", 1>>}

Dirs == {"/d", "/e"}

MkPath(a, d) == [host |-> a[1], port |-> a[2], dir |-> d]

SessionPaths == {MkPath(a, d) : a \in Authorities, d \in Dirs}

\* an attribute that has not been assigned
NoDir == [host |-> "", port |-> 0, dir |-> ""]

NoClient == [host |-> "", port |-> 0, closed |-> FALSE, wd |-> NoDir]

\* self.module.split(path)[:2]
split(path) == <<path.host, path.port>>

\* hdfs.hdfs(host, port): a new handle, bound to the resolved authority, its
\* working directory the user's home on that filesystem
hdfs_hdfs(host, port) ==
    LET a == IF <<host, port>> = <<"default", 0>> THEN DefaultAuthority
             ELSE <<host, port>>
    IN  [host |-> a[1], port |-> a[2], closed |-> FALSE,
         wd |-> MkPath(a, "/user")]

Call(name, h, handle) ==
    [call |-> name, h |-> h, host |-> handle.host, port |-> handle.port,
     closed |-> handle.closed]

\* State threaded through one operation: the object's fields, the cached
\* handle, the calls made so far, the error raised (if any), the value returned.
Start ==
    [fs |-> self_fs, old_dir |-> self_old_dir, client |-> client,
     calls |-> <<>>, err |-> "ok", ret |-> NoDir]

\* ------------------------------------------------------ session: methods
\* fs without the None test: every resolution connects again
fs_reconnect(st) ==
    LET hp == split(self_path)
        h == hdfs_hdfs(hp[1], hp[2])
    IN  [st EXCEPT !.fs = FsId, !.client = h,
                   !.calls = Append(@, Call("connect", "fs", h))]

\* HdfsPath.fs
fs(st) ==
    IF st.fs = NoFs
    THEN LET hp == split(self_path)
             h == hdfs_hdfs(hp[1], hp[2])
         IN  [st EXCEPT !.fs = FsId, !.client = h,
                        !.calls = Append(@, Call("connect", "fs", h))]
    ELSE st

\* A call on the cached handle that needs the connection.  On a handle that
\* has been closed the client either refuses the call or still serves it (the
\* connection may be shared and still up); both outcomes are kept.
remote(st, name, proceed) ==
    LET logged == [st EXCEPT !.calls = Append(@, Call(name, "fs", st.client))]
    IN  IF st.client.closed /\ ~proceed
        THEN [logged EXCEPT !.err = "ClosedHandle"]
        ELSE logged

\* HdfsPath.getcwd
getcwd(st, proceed) ==
    LET s1 == fs(st)
        s2 == remote(s1, "working_directory", proceed)
    IN  IF s2.err = "ok" THEN [s2 EXCEPT !.ret = s1.client.wd] ELSE s2

\* chdir refusing only when host and port both differ
chdir_and(st, path, proceed) ==
    LET hp == split(path)
        tmp == hdfs_hdfs(hp[1], hp[2])
        s1 == [st EXCEPT !.calls = Append(@, Call("connect", "tmp", tmp))]
        s2 == fs(s1)
        s3 == IF tmp.host # s2.client.host /\ tmp.port # s2.client.port
              THEN [s2 EXCEPT !.err = "RuntimeError"]
              ELSE LET s == remote(s2, "set_working_directory", proceed)
                   IN  IF s.err = "ok" THEN [s EXCEPT !.client.wd = path]
                       ELSE s
    IN  [s3 EXCEPT !.calls = Append(@, Call("close", "tmp", tmp))]

\* HdfsPath.chdir
chdir(st, path, proceed) ==
    LET hp == split(path)
        tmp == hdfs_hdfs(hp[1], hp[2])
        s1 == [st EXCEPT !.calls = Append(@, Call("connect", "tmp", tmp))]
        s2 == fs(s1)
        s3 == IF tmp.host # s2.client.host \/ tmp.port # s2.client.port
              THEN [s2 EXCEPT !.err = "RuntimeError"]
              ELSE LET s == remote(s2, "set_working_directory", proceed)
                   IN  IF s.err = "ok" THEN [s EXCEPT !.client.wd = path]
                       ELSE s
    IN  [s3 EXCEPT !.calls = Append(@, Call("close", "tmp", tmp))]

\* HdfsPath.close
close(st, proceed) ==
    IF st.fs # NoFs
    THEN LET s == remote(st, "close", proceed)
         IN  [s EXCEPT !.client.closed = TRUE]
    ELSE st

\* HdfsPath.__enter__
enter(st, p1, p2) ==
    LET s1 == getcwd(st, p1)
    IN  IF s1.err # "ok" THEN s1
        ELSE chdir([s1 EXCEPT !.old_dir = s1.ret], self_path, p2)

\* HdfsPath.__exit__
exit(st, p1, p2) ==
    LET s1 == chdir(st, st.old_dir, p1)
    IN  IF s1.err # "ok" THEN s1 ELSE close(s1, p2)

\* ------------------------------------------------------ session: actions
Finish(name, arg, st) ==
    /\ self_fs' = st.fs
    /\ self_old_dir' = st.old_dir
    /\ client' = st.client
    /\ calls' = st.calls
    /\ op' = [name |-> name, path |-> arg]
    /\ outcome' = st.err
    /\ UNCHANGED <<self_path, pathVars, travVars>>

\* p.fs
CallFs ==
    /\ Finish("fs", NoDir, fs(Start))
    /\ UNCHANGED <<depth, entryDirs>>

\* p.getcwd() / p.cwd
CallGetcwd ==
    \E proceed \in BOOLEAN :
        /\ Finish("getcwd", NoDir, getcwd(Start, proceed))
        /\ UNCHANGED <<depth, entryDirs>>

\* p.chdir(path) / p.cwd = path; path = None stands for the path itself
CallChdir ==
    \E path \in SessionPaths \cup {hdfs_hdfs(a[1], a[2]).wd : a \in Authorities},
       proceed \in BOOLEAN :
        /\ Finish("chdir", path, chdir(Start, path, proceed))
        /\ UNCHANGED <<depth, entryDirs>>

\* p.close()
CallClose ==
    \E proceed \in BOOLEAN :
        /\ Finish("close", NoDir, close(Start, proceed))
        /\ UNCHANGED <<depth, entryDirs>>

\* with p: ...  The block is entered only if __enter__ returns.
CallEnter ==
    /\ depth < MaxDepth
    /\ \E p1 \in BOOLEAN, p2 \in BOOLEAN :
        LET st == enter(Start, p1, p2)
        IN  /\ Finish("__enter__", NoDir, st)
            /\ IF st.err = "ok"
               THEN /\ depth' = depth + 1
                    /\ entryDirs' = Append(entryDirs, st.old_dir)
               ELSE UNCHANGED <<depth, entryDirs>>

\* Leaving the innermost open with-block, normally or by an error raised in
\* its body: __exit__ runs either way, and the block is left even if __exit__
\* itself raises.
CallExit ==
    /\ depth > 0
    /\ \E p1 \in BOOLEAN, p2 \in BOOLEAN :
        /\ Finish("__exit__", NoDir, exit(Start, p1, p2))
        /\ depth' = depth - 1
        /\ entryDirs' = SubSeq(entryDirs, 1, Len(entryDirs) - 1)

SessionInit ==
    /\ self_path \in SessionPaths
    /\ self_fs = NoFs
    /\ self_old_dir = NoDir
    /\ client = NoClient
    /\ calls = <<>>
    /\ op = [name |-> "__init__", path |-> NoDir]
    /\ outcome = "ok"
    /\ depth = 0
    /\ entryDirs = <<>>

PathIdle == pin = <<>> /\ pout = <<>>
TravIdle == tree = <<>> /\ tout = <<>>

Init == SessionInit /\ PathIdle /\ TravIdle

Next ==
    \/ CallFs
    \/ CallGetcwd
    \/ CallChdir
    \/ CallClose
    \/ CallEnter
    \/ CallExit

Spec == Init /\ [][Next]_vars

\* ------------------------------------------------------- session: claims
Idx(log) == 1..Len(log)

IsCall(e, name, h) == e.call = name /\ e.h = h

\* the authority a path's (host, port) resolves to on connection
Resolved(path) ==
    LET h == hdfs_hdfs(split(path)[1], split(path)[2]) IN <<h.host, h.port>>

\* C1: every __exit__ restores the saved working directory on the open
\* handle and then closes that handle: both calls are made, in that order,
\* neither on a handle already closed, and the handle is closed afterwards.
C1_RestoreThenClose ==
    op.name = "__exit__" =>
        /\ outcome = "ok"
        /\ client.closed
        /\ \E i \in Idx(calls), j \in Idx(calls) :
            /\ i < j
            /\ IsCall(calls[i], "set_working_directory", "fs")
            /\ ~calls[i].closed
            /\ IsCall(calls[j], "close", "fs")
            /\ ~calls[j].closed

\* C2: chdir to a path whose authority differs from that of the bound handle
\* raises the cross-filesystem error, issues no call on the bound handle and
\* leaves the handle, its working directory and the cached reference as they
\* were.
C2_CrossFilesystemChdir ==
    [][(/\ op'.name = "chdir"
        /\ self_fs # NoFs
        /\ Resolved(op'.path) # <<client.host, client.port>>)
       => /\ outcome' = "RuntimeError"
          /\ client' = client
          /\ self_fs' = self_fs
          /\ \A i \in Idx(calls') : calls'[i].h # "fs"]_vars

\* C2 witness: a chdir on an already bound handle raised the error
C2_Witness ==
    /\ op.name = "chdir"
    /\ outcome = "RuntimeError"
    /\ Resolved(op.path) # <<client.host, client.port>>
    /\ client.wd # hdfs_hdfs(client.host, client.port).wd
    /\ \A i \in Idx(calls) : calls[i].h # "fs"

\* C3: a successful __enter__ leaves the working directory at the path, and
\* every __exit__ leaves it at the directory that was current when the block
\* it closes was entered.
C3_ScopeValues ==
    [][/\ (op'.name = "__enter__" /\ outcome' = "ok") => client'.wd = self_path
       /\ op'.name = "__exit__" => client'.wd = entryDirs[Len(entryDirs)]]_vars

\* C4: no call that needs the connection is issued on a handle that has
\* already been closed.
C4_NoCallOnClosedHandle ==
    \A i \in Idx(calls) :
        (calls[i].h = "fs"
         /\ calls[i].call \in {"working_directory", "set_working_directory"})
        => ~calls[i].closed

\* C5: close() never invokes the client's close on a handle that is already
\* closed, never raises, and issues no call when nothing was ever connected.
C5_CloseIdempotent ==
    op.name = "close" =>
        /\ outcome = "ok"
        /\ \A i \in Idx(calls) : ~calls[i].closed
        /\ self_fs = NoFs => calls = <<>>

\* Whether handle h is live after the first i calls of log, given whether it
\* was live before them.
RECURSIVE LiveAfter(_, _, _, _)
LiveAfter(h, log, i, before) ==
    IF i = 0 THEN before
    ELSE IF IsCall(log[i], "connect", h) THEN TRUE
    ELSE IF IsCall(log[i], "close", h) THEN FALSE
    ELSE LiveAfter(h, log, i - 1, before)

\* The authority of handle h as of the i-th call of log.
RECURSIVE AuthAt(_, _, _, _)
AuthAt(h, log, i, before) ==
    IF i = 0 THEN before
    ELSE IF log[i].h = h THEN <<log[i].host, log[i].port>>
    ELSE AuthAt(h, log, i - 1, before)

FsLiveBefore == self_fs # NoFs /\ ~client.closed

\* After the first i calls of the step's operation, both the cached and a
\* temporary handle are live and bound to the same authority.
TwoLiveAt(i) ==
    /\ LiveAfter("fs", calls', i, FsLiveBefore)
    /\ LiveAfter("tmp", calls', i, FALSE)
    /\ AuthAt("fs", calls', i, <<client.host, client.port>>)
         = AuthAt("tmp", calls', i, <<"", 0>>)

\* C6 as stated: at no point of any operation are two handles to one
\* authority live.
C6_OneLiveHandlePerAuthority ==
    [][\A i \in Idx(calls') : ~TwoLiveAt(i)]_vars

\* C6 amended: the object caches one handle and never connects it again
\* once cached; no temporary handle outlives the operation that opened it;
\* only chdir, alone or inside __enter__ / __exit__, has a temporary handle,
\* and fs, getcwd and close never have two handles live.
C6_OneCachedHandle ==
    [][/\ self_fs # NoFs =>
            /\ self_fs' = self_fs
            /\ \A i \in Idx(calls') : ~IsCall(calls'[i], "connect", "fs")
       /\ Cardinality({i \in Idx(calls') : IsCall(calls'[i], "connect", "fs")}) <= 1
       /\ ~LiveAfter("tmp", calls', Len(calls'), FALSE)
       /\ Cardinality({i \in Idx(calls') : IsCall(calls'[i], "connect", "tmp")}) <= 1
       /\ op'.name \in {"fs", "getcwd", "close"} =>
            \A i \in Idx(calls') : calls'[i].h = "fs"]_vars

\* C6 witness: a chdir on an open cached handle held a temporary handle to
\* the same authority while it set the working directory
C6_Witness ==
    /\ op.name = "chdir"
    /\ outcome = "ok"
    /\ ~client.closed
    /\ \E i \in Idx(calls), j \in Idx(calls), k \in Idx(calls) :
        /\ i < j /\ j < k
        /\ IsCall(calls[i], "connect", "tmp")
        /\ IsCall(calls[j], "set_working_directory", "fs")
        /\ IsCall(calls[k], "close", "tmp")
        /\ <<calls[i].host, calls[i].port>> = <<client.host, client.port>>
    /\ \A i \in Idx(calls) : ~IsCall(calls[i], "connect", "fs")

\* ---------------------------------------------------------- path values
\* A path value: its authority (host, port), NoAuthority when it carries
\* none, whether it starts at the root, and its segments.
NoAuthority == <<"", 0>>

PathAuthorities == {NoAuthority, <<"h1", 1>>, <<"h1", 2>>, <<"h2", 1>>}

SegNames == {"a", "b", ".", ".."}

RECURSIVE SeqsUpTo(_, _)
SeqsUpTo(S, n) ==
    IF n = 0 THEN {<<>>}
    ELSE LET shorter == SeqsUpTo(S, n - 1)
         IN  shorter \cup {Append(q, x) : q \in shorter, x \in S}

\* the absolute path values relpath is applied to
AbsPaths ==
    {[auth |-> a, abs |-> TRUE, segs |-> q] :
        a \in PathAuthorities, q \in SeqsUpTo(SegNames, MaxSegs)}

\* no argument given (start=None)
NonePath == [auth |-> <<"None", 0>>, abs |-> FALSE, segs |-> <<>>]

\* normalize: "." dropped, ".." resolved against the segment before it;
\* ".." at the root is dropped, ".." at the head of a relative path is kept
RECURSIVE NormSegs(_, _, _)
NormSegs(done, rest, abs) ==
    IF rest = <<>> THEN done
    ELSE LET x == Head(rest)
             n == Len(done)
         IN  IF x = "." THEN NormSegs(done, Tail(rest), abs)
             ELSE IF x = ".."
             THEN IF n > 0 /\ done[n] # ".."
                  THEN NormSegs(SubSeq(done, 1, n - 1), Tail(rest), abs)
                  ELSE IF abs THEN NormSegs(done, Tail(rest), abs)
                  ELSE NormSegs(Append(done, x), Tail(rest), abs)
             ELSE NormSegs(Append(done, x), Tail(rest), abs)

normalize(p) ==
    LET q == NormSegs(<<>>, p.segs, p.abs)
    IN  [p EXCEPT !.segs = IF q = <<>> /\ ~p.abs THEN <<".">> ELSE q]

\* join: an absolute right operand replaces what is on its left
join(a, b) ==
    IF b.abs THEN b ELSE [a EXCEPT !.segs = a.segs \o b.segs]

\* length of the longest common prefix of two segment sequences
RECURSIVE CommonPrefix(_, _)
CommonPrefix(s, d) ==
    IF s = <<>> \/ d = <<>> \/ Head(s) # Head(d) THEN 0
    ELSE 1 + CommonPrefix(Tail(s), Tail(d))

\* path.relpathto: the relative path from origin to dest
relpathto(origin, dest) ==
    IF origin.auth # dest.auth THEN dest
    ELSE LET s == normalize(origin).segs
             d == normalize(dest).segs
             i == CommonPrefix(s, d)
             up == [k \in 1..(Len(s) - i) |-> ".."]
             segments == up \o SubSeq(d, i + 1, Len(d))
         IN  [auth |-> NoAuthority, abs |-> FALSE,
              segs |-> IF segments = <<>> THEN <<".">> ELSE segments]

\* relpath computed from this path to start
relpath_swapped(this, start, cwd) ==
    relpathto(this, IF start = NonePath THEN cwd ELSE start)

\* HdfsPath.relpath; cwd is what self.cwd returns
relpath(this, start, cwd) ==
    relpathto(IF start = NonePath THEN cwd ELSE start, this)

\* ------------------------------------------------------- path: actions
PathDone(name, result) ==
    /\ pout' = result
    /\ op' = [name |-> name, path |-> NoDir]
    /\ UNCHANGED <<self_path, self_fs, self_old_dir, client, calls, outcome,
                   depth, entryDirs, pin, travVars>>

\* source.relpathto(destination)
CallRelpathto == PathDone("relpathto", relpathto(pin.source, pin.destination))

\* destination.relpath(source)
CallRelpath ==
    \E cwd \in {NonePath, pin.destination} :
        PathDone("relpath", relpath(pin.destination, pin.source, cwd))

\* destination.relpath(), the working directory being source
CallRelpathCwd ==
    PathDone("relpath_cwd", relpath(pin.destination, NonePath, pin.source))

SessionIdle ==
    /\ self_path = NoDir
    /\ self_fs = NoFs
    /\ self_old_dir = NoDir
    /\ client = NoClient
    /\ calls = <<>>
    /\ op = [name |-> "__init__", path |-> NoDir]
    /\ outcome = "ok"
    /\ depth = 0
    /\ entryDirs = <<>>

InitPath ==
    /\ SessionIdle
    /\ pin \in [source : AbsPaths, destination : AbsPaths]
    /\ pout = NonePath
    /\ tree = <<>>
    /\ tout = <<>>

NextPath ==
    \/ CallRelpathto
    \/ CallRelpath
    \/ CallRelpathCwd

SpecPath == InitPath /\ [][NextPath]_vars

\* --------------------------------------------------------- path: claims
Ran == op.name \in {"relpathto", "relpath", "relpath_cwd"}

\* C9: when source and destination differ in authority (host, port, or only
\* one of them carrying an authority), the result is the destination itself,
\* an absolute path.
C9_CrossAuthority ==
    (Ran /\ pin.source.auth # pin.destination.auth)
        => pout = pin.destination /\ pout.abs

\* C9 witness: a path with an authority made relative to one without, the
\* two not being the same path
C9_Witness ==
    /\ op.name = "relpath"
    /\ pin.source.auth = NoAuthority
    /\ pin.destination.auth = <<"h1", 2>>
    /\ pin.source.segs # pin.destination.segs
    /\ pout = pin.destination

\* C10: for source and destination of one authority, joining the source with
\* the result and normalizing gives the normalized destination.
C10_RoundTrip ==
    (Ran /\ pin.source.auth = pin.destination.auth)
        => normalize(join(pin.source, pout)) = normalize(pin.destination)

\* C10 witness: siblings below a common parent, the result going up and down
C10_Witness ==
    /\ op.name = "relpath"
    /\ pin.source.auth = <<"h1", 1>>
    /\ pin.source.segs = <<"a", "b">>
    /\ pin.destination.auth = <<"h1", 1>>
    /\ pin.destination.segs = <<"a", "a">>
    /\ pout.segs = <<"..", "a">>

\* ------------------------------------------------------ traversal: values
\* A name is a sequence of characters, a path a sequence of names.  A remote
\* entry is [name, kind, ls]: kind "d" or "f", ls the entries of a directory
\* in the order the filesystem enumerates them.
Entry(name, kind, ls) == [name |-> name, kind |-> kind, ls |-> ls]

RootName == <<"w">>
RootPath == <<RootName>>

ListNames ==
    {<<"f", "o", "o">>, <<"b", "a", "r">>, <<"t", "a", "r">>,
     <<"f", "o", "o", ".", "x">>, <<"b", "a", "r", ".", "x">>}

\* as in the tests: names with an extension are files, the others directories
ListEntry(name) ==
    Entry(name, IF \E i \in 1..Len(name) : name[i] = "." THEN "f" ELSE "d", <<>>)

Listings ==
    {q \in SeqsUpTo(ListNames, MaxEntries) :
        \A i \in 1..Len(q), j \in 1..Len(q) : i # j => q[i] # q[j]}

\* a directory with a flat listing, or a file where a directory is expected
FlatTrees ==
    {Entry(RootName, "d", [i \in 1..Len(q) |-> ListEntry(q[i])]) : q \in Listings}
        \cup {Entry(RootName, "f", <<>>)}

Letters == <<"a", "b", "c", "d", "e", "g", "h">>

\* ForestsOf(n, pos): the listings holding n entries in all, nested ones
\* counted, whose first entry is the pos-th of its directory
RECURSIVE ForestsOf(_, _), NodesOf(_, _)
ForestsOf(n, pos) ==
    IF n = 0 THEN {<<>>}
    ELSE UNION {{<<node>> \o rest : node \in NodesOf(k, <<Letters[pos]>>),
                                    rest \in ForestsOf(n - k, pos + 1)} :
                k \in 1..n}

NodesOf(k, name) ==
    (IF k = 1 THEN {Entry(name, "f", <<>>)} ELSE {})
        \cup {Entry(name, "d", f) : f \in ForestsOf(k - 1, 1)}

WalkTrees ==
    {Entry(RootName, "d", f) : f \in UNION {ForestsOf(n, 1) : n \in 0..MaxNodes}}

PatTokens == {"f", "a", "*", "?", "[bt]"}

Patterns == SeqsUpTo(PatTokens, MaxPatLen)

\* pattern=None
NonePattern == <<"None">>

\* ---------------------------------------------- traversal: the filesystem
\* path.isdir() / path.isfile()
isdir(node) == node.kind = "d"

\* hdfs.ls(path): full paths of a directory's entries, in the filesystem's
\* order; of a file, its own path
hdfs_ls(path, node) ==
    IF node.kind = "d"
    THEN [i \in 1..Len(node.ls) |-> Append(path, node.ls[i].name)]
    ELSE <<path>>

\* hdfs.path.basename
basename(path) == path[Len(path)]

\* the entry of directory node called name
Child(node, name) ==
    CHOOSE c \in {node.ls[i] : i \in 1..Len(node.ls)} : c.name = name

\* one character against one pattern token
TokenMatches(t, c) ==
    \/ t = "?"
    \/ t = "[bt]" /\ c \in {"b", "t"}
    \/ t = c

\* path.fnmatch: shell-style wildcard match of a name
RECURSIVE fnmatch(_, _)
fnmatch(name, pattern) ==
    IF pattern = <<>> THEN name = <<>>
    ELSE IF Head(pattern) = "*"
    THEN \/ fnmatch(name, Tail(pattern))
         \/ name # <<>> /\ fnmatch(Tail(name), pattern)
    ELSE /\ name # <<>>
         /\ TokenMatches(Head(pattern), Head(name))
         /\ fnmatch(Tail(name), Tail(pattern))

\* ----------------------------------------------- traversal: the methods
\* listdir without the isdir test
listdir_nocheck(path, node, pattern) ==
    LET pat == IF pattern = NonePattern THEN <<"*">> ELSE pattern
        full == hdfs_ls(path, node)
        ls == [i \in 1..Len(full) |-> basename(full[i])]
        kept == SelectSeq(ls, LAMBDA n : fnmatch(n, pat))
    IN  [err |-> "ok", errpath |-> <<>>, calls |-> <<"isdir", "ls">>,
         items |-> [i \in 1..Len(kept) |-> Append(path, kept[i])]]

\* listdir returning the bare names instead of self / name
listdir_names(path, node, pattern) ==
    LET pat == IF pattern = NonePattern THEN <<"*">> ELSE pattern
    IN  IF ~isdir(node)
        THEN [err |-> "ENOTDIR", errpath |-> path, calls |-> <<"isdir">>,
              items |-> <<>>]
        ELSE LET full == hdfs_ls(path, node)
                 ls == [i \in 1..Len(full) |-> basename(full[i])]
                 kept == SelectSeq(ls, LAMBDA n : fnmatch(n, pat))
             IN  [err |-> "ok", errpath |-> <<>>, calls |-> <<"isdir", "ls">>,
                  items |-> [i \in 1..Len(kept) |-> <<kept[i]>>]]

\* HdfsPath.listdir
listdir(path, node, pattern) ==
    LET pat == IF pattern = NonePattern THEN <<"*">> ELSE pattern
    IN  IF ~isdir(node)
        THEN [err |-> "ENOTDIR", errpath |-> path, calls |-> <<"isdir">>,
              items |-> <<>>]
        ELSE LET full == hdfs_ls(path, node)
                 ls == [i \in 1..Len(full) |-> basename(full[i])]
                 kept == SelectSeq(ls, LAMBDA n : fnmatch(n, pat))
             IN  [err |-> "ok", errpath |-> <<>>, calls |-> <<"isdir", "ls">>,
                  items |-> [i \in 1..Len(kept) |-> Append(path, kept[i])]]

\* path.walk: each child of the listing, a directory followed by its own walk.
\* Returns the paths yielded, the list calls made and the error, if any.
RECURSIVE walk(_, _), WalkChildren(_, _, _)
walk(path, node) ==
    LET l == listdir(path, node, NonePattern)
    IN  IF l.err # "ok" THEN [err |-> l.err, items |-> <<>>, lists |-> 0]
        ELSE LET r == WalkChildren(node, l.items, 1)
             IN  [r EXCEPT !.lists = @ + 1]

WalkChildren(node, children, i) ==
    IF i > Len(children) THEN [err |-> "ok", items |-> <<>>, lists |-> 0]
    ELSE LET child == children[i]
             cnode == Child(node, basename(child))
             below == IF isdir(cnode) THEN walk(child, cnode)
                      ELSE [err |-> "ok", items |-> <<>>, lists |-> 0]
             rest == WalkChildren(node, children, i + 1)
         IN  [err |-> "ok",
              items |-> <<child>> \o below.items \o rest.items,
              lists |-> below.lists + rest.lists]

\* the entry a path below the root denotes
RECURSIVE NodeAt(_, _, _)
NodeAt(node, path, i) ==
    IF i > Len(path) THEN node ELSE NodeAt(Child(node, path[i]), path, i + 1)

\* path.walkdirs / path.walkfiles: the directories, the files of the walk
walkdirs(path, node) ==
    SelectSeq(walk(path, node).items,
              LAMBDA p : isdir(NodeAt(node, p, Len(path) + 1)))

walkfiles(path, node) ==
    SelectSeq(walk(path, node).items,
              LAMBDA p : ~isdir(NodeAt(node, p, Len(path) + 1)))

\* -------------------------------------------------- traversal: actions
TravDone(name, result) ==
    /\ tout' = result
    /\ op' = [name |-> name, path |-> NoDir]
    /\ UNCHANGED <<self_path, self_fs, self_old_dir, client, calls, outcome,
                   depth, entryDirs, pathVars, tree>>

\* d.listdir(pattern) / d.listdir()
CallListdir ==
    \E pattern \in Patterns \cup {NonePattern} :
        TravDone("listdir",
                 [pattern |-> pattern, res |-> listdir(RootPath, tree, pattern)])

\* root.walk(), root.walkdirs(), root.walkfiles()
CallWalk ==
    /\ isdir(tree)
    /\ TravDone("walk",
                [walk |-> walk(RootPath, tree),
                 walkdirs |-> walkdirs(RootPath, tree),
                 walkfiles |-> walkfiles(RootPath, tree)])

InitTrav ==
    /\ SessionIdle
    /\ pin = <<>>
    /\ pout = <<>>
    /\ tree \in FlatTrees \cup WalkTrees
    /\ tout = <<>>

NextTrav ==
    \/ CallListdir
    \/ CallWalk

SpecTrav == InitTrav /\ [][NextTrav]_vars

\* ----------------------------------------------------- traversal: claims
\* the k-th smallest element of a set of numbers
Nth(M, k) == CHOOSE i \in M : Cardinality({j \in M : j < i}) = k - 1

\* the positions of the listing whose name matches the pattern
MatchingAt(pattern) ==
    {i \in 1..Len(tree.ls) : fnmatch(tree.ls[i].name, pattern)}

\* C7: listdir on what is not a directory raises ENOTDIR with the path and
\* lists nothing; on a directory it returns dir / name for exactly the
\* entries whose own name matches the pattern, in listing order, and every
\* entry when no pattern is given.
C7_Listdir ==
    op.name = "listdir" =>
        LET r == tout.res
            M == MatchingAt(tout.pattern)
        IN  IF tree.kind # "d"
            THEN /\ r.err = "ENOTDIR"
                 /\ r.errpath = RootPath
                 /\ r.items = <<>>
                 /\ \A i \in 1..Len(r.calls) : r.calls[i] # "ls"
            ELSE /\ r.err = "ok"
                 /\ IF tout.pattern = NonePattern
                    THEN /\ Len(r.items) = Len(tree.ls)
                         /\ \A i \in 1..Len(tree.ls) :
                              r.items[i] = Append(RootPath, tree.ls[i].name)
                    ELSE /\ Len(r.items) = Cardinality(M)
                         /\ \A k \in 1..Len(r.items) :
                              r.items[k]
                                = Append(RootPath, tree.ls[Nth(M, k)].name)

\* C7 witness: pattern f* on a listing of bar.x and foo keeps foo alone
C7_Witness ==
    /\ op.name = "listdir"
    /\ tout.pattern = <<"f", "*">>
    /\ Len(tree.ls) = 2
    /\ tree.ls[1].name = <<"b", "a", "r", ".", "x">>
    /\ tree.ls[2].name = <<"f", "o", "o">>
    /\ tout.res.items = <<Append(RootPath, <<"f", "o", "o">>)>>

\* every path strictly below a directory, with the kind of its entry
RECURSIVE Below(_, _)
Below(path, node) ==
    UNION {{[path |-> Append(path, node.ls[i].name), kind |-> node.ls[i].kind]}
              \cup Below(Append(path, node.ls[i].name), node.ls[i]) :
           i \in 1..Len(node.ls)}

Range(q) == {q[i] : i \in 1..Len(q)}

NoRepeat(q) == Cardinality(Range(q)) = Len(q)

\* C8: walk yields every file and directory strictly below the root once,
\* never the root, with one list call per directory; walkdirs yields the
\* directories and walkfiles the files, and the two partition walk's output.
C8_Walk ==
    op.name = "walk" =>
        LET all == Below(RootPath, tree)
            dirs == {e.path : e \in {x \in all : x.kind = "d"}}
            files == {e.path : e \in {x \in all : x.kind = "f"}}
        IN  /\ tout.walk.err = "ok"
            /\ NoRepeat(tout.walk.items)
            /\ Range(tout.walk.items) = dirs \cup files
            /\ RootPath \notin Range(tout.walk.items)
            /\ tout.walk.lists = Cardinality(dirs) + 1
            /\ NoRepeat(tout.walkdirs) /\ Range(tout.walkdirs) = dirs
            /\ NoRepeat(tout.walkfiles) /\ Range(tout.walkfiles) = files
            /\ Range(tout.walkdirs) \cap Range(tout.walkfiles) = {}
            /\ Range(tout.walkdirs) \cup Range(tout.walkfiles)
                 = Range(tout.walk.items)

\* C8 witness: a directory holding a directory holding a file
C8_Witness ==
    /\ op.name = "walk"
    /\ Len(tout.walk.items) = 3
    /\ Len(tout.walkdirs) = 2
    /\ tout.walkfiles = <<RootPath \o <<<<"a">>, <<"a">>, <<"a">>>>>>
    /\ tout.walk.lists = 3

====
